---- MODULE Spec2Model ----
(***************************************************************************)
(* Titan1280 viewer (titan1280_mac_v1.0.2.0.py): the serial command        *)
(* channel with its background reader threads, the settings persistence,   *)
(* the range sliders and the per-frame normalization.                      *)
(*                                                                         *)
(* Handlers that run on the main thread (mouse_callback branches, the key  *)
(* handling of the frame loop, load_settings, the shutdown sequence) are   *)
(* one action each.  serial_read_thread runs on its own thread and is      *)
(* split at every access to the shared globals, so that the main thread's  *)
(* handlers interleave with it.                                            *)
(***************************************************************************)
EXTENDS Integers, Sequences, FiniteSets, TLC

\* ------------------------------------------------------------------ bounds
MaxThreads  == 2       \* reader threads started in one run (Spec)
MaxChunks   == 1       \* chunks the device delivers in one run (Spec)
MaxRxChunks == 11      \* chunks the device delivers in one run (SpecRx)
MaxDraft    == 4       \* characters typed into the text input (SpecSend)
MaxTxDraft  == 5       \* characters typed into the text input (SpecTx)

\* --------------------------------------------------------------- constants
RX_CAPACITY == 10
DEFAULT_BAUD_INDEX == 4
BAUD_RATES == <<9600, 19200, 38400, 57600, 115200, 230400, 460800, 921600>>
NoPorts == "No ports"

\* None for serial_connection; a serial.Serial object otherwise.  id is the
\* object's identity: the n-th object created by connect_serial has id n.
None == [id |-> 0, port |-> "None", baud |-> 0, is_open |-> FALSE]
Serial(n, port_name, baud) ==
    [id |-> n, port |-> port_name, baud |-> baud, is_open |-> TRUE]

\* What serial.tools.list_ports.comports() can return on the machine.
PortScenarios == {<< >>, <<"COM3">>, <<"COM3", "COM4">>}

Threads == 1..MaxThreads

\* The printable keys pressed (lines 927-928): hexadecimal digits, the
\* space, and a letter that is not a digit.
HexKeys == {"A", "0", "5", " "}
Keys == HexKeys \cup {"Z"}

\* The camera's data: rows of <<high byte, low byte>> pairs, two pairs a
\* row (the high byte arrives in the left half of the frame, the low byte in
\* the right half).
RawPixels == {<<0, 0>>, <<7, 208>>, <<117, 48>>, <<255, 255>>}
RawFrames == {<<<<a, b>>, <<c, d>>>> : a \in RawPixels, b \in RawPixels,
                                      c \in RawPixels, d \in RawPixels}

\* Three of them: four different samples, the samples 0, 65535, 30000,
\* 30000, and a uniform frame.
DisplayFrames ==
    {<<<<<<0, 0>>, <<7, 208>>>>, <<<<117, 48>>, <<255, 255>>>>>>,
     <<<<<<0, 0>>, <<255, 255>>>>, <<<<117, 48>>, <<117, 48>>>>>>,
     <<<<<<7, 208>>, <<7, 208>>>>, <<<<7, 208>>, <<7, 208>>>>>>}

VARIABLES
    SERIAL_AVAILABLE,      \* line 12/14: whether pyserial imported
    comports,              \* the ports the OS enumerates
    thread_limit,          \* the run's bound on reader threads started
    chunk_limit,           \* the run's bound on chunks delivered
    draft_limit,           \* the run's bound on characters typed into the text input
    draft_keys,            \* the printable keys pressed in the run
    cam_frames,            \* the data the camera delivers in the run
    available_ports, selected_port_index, selected_baud_index,
    serial_connection, serial_running, serial_rx_buffer,
    nthreads,              \* serial_read_thread threads started so far
    pc,                    \* position of each reader thread
    data,                  \* the reader's local 'data'
    session,               \* id of the connection a reader last passed its loop test on
    rxSeq,                 \* chunks the device has delivered so far
    rx_pending,            \* bytes waiting in the open port's input buffer
    read_error,            \* the readers that ended on a read error of an open
                           \* transport since disconnect_serial was last called
    lastCall,              \* the main thread's last call and its return value; n
                           \* alternates, so that every call changes lastCall
    mainpc,                \* "start" | "run" | "saved" | "exit", or "raised" once
                           \* an uncaught exception has ended the frame loop
    \* ConfigState (lines 57-73) and the persisted record
    current_palette_index, invert_palette, auto_range, manual_offset, manual_range,
    show_histogram, sharpen_index, show_cursor_readout,
    last_serial_port, last_baud_rate,
    settings_file,         \* the content of titan1280_settings.json
    dragging_slider,
    \* TxDraft and the transport's output
    serial_tx_buffer, serial_input_active,
    last_written,          \* the write calls the main thread's last handler made on
                           \* the transport: the payload, and whether write raised
    \* the frame loop
    frame,                 \* the BGR frame cap.read() returned
    high, low,             \* the two 8-bit planes of the captured frame
    current_gray16,
    norm8,                 \* preview8 as the normalization leaves it (line 876 / 883)
    preview8,              \* preview8 as apply_sharpening returns it (line 886)
    preview,               \* the BGR image apply_palette returns (line 889)
    low_val, high_val      \* the percentile bounds of the auto branch

serialVars == <<available_ports, selected_port_index, selected_baud_index,
                serial_connection, serial_running>>
readerVars == <<nthreads, pc, data, session, rxSeq, rx_pending, serial_rx_buffer,
                read_error>>
envVars    == <<SERIAL_AVAILABLE, comports, thread_limit, chunk_limit, draft_limit,
                draft_keys, cam_frames>>
configVars == <<current_palette_index, invert_palette, auto_range, manual_offset,
                manual_range, show_histogram, sharpen_index, show_cursor_readout,
                last_serial_port, last_baud_rate, settings_file, dragging_slider>>
draftVars  == <<serial_tx_buffer, serial_input_active>>
txVars     == <<serial_tx_buffer, serial_input_active, last_written>>
pipeVars   == <<frame, high, low, current_gray16, norm8, preview8, preview, low_val,
                high_val>>
vars == <<envVars, serialVars, readerVars, lastCall, mainpc, configVars, txVars,
          pipeVars>>

\* ------------------------------------------------------------ helpers
HexDigits == <<"0","1","2","3","4","5","6","7","8","9","A","B","C","D","E","F">>

\* bytes.hex().upper(): two uppercase hexadecimal digits per byte.
RECURSIVE Hex(_)
Hex(bytes) ==
    IF bytes = << >> THEN << >>
    ELSE <<HexDigits[(Head(bytes) \div 16) + 1], HexDigits[(Head(bytes) % 16) + 1]>>
         \o Hex(Tail(bytes))

\* The n-th chunk the device sends (what read(in_waiting) returns).
Chunk(n) == <<n, 255 - n>>

InSeq(x, s) == \E i \in 1..Len(s) : s[i] = x
IndexOf(x, s) == CHOOSE i \in 1..Len(s) : s[i] = x /\ \A j \in 1..(i-1) : s[j] # x

\* scan_serial_ports
ScanSerialPorts(avail, ports) ==
    IF ~avail THEN << >>
    ELSE IF ports = << >> THEN <<NoPorts>> ELSE ports

\* The truth value of 'serial_connection and serial_connection.is_open'.
IsConnected(conn) == conn # None /\ conn.is_open

Call(op, ret) == [op |-> op, ret |-> ret, n |-> 1 - lastCall.n]

\* JSON null / Python None where a string is expected.
Null == "null"

\* The record save_settings writes (lines 241-252) and load_settings reads.
Record(pi, inv, ar, off, rng, sh, si, scr, port, baud) ==
    [palette_index |-> pi, invert |-> inv, auto_range |-> ar, offset |-> off,
     range |-> rng, show_histogram |-> sh, sharpen_index |-> si,
     show_cursor_readout |-> scr, last_serial_port |-> port, last_baud_rate |-> baud]

\* The defaults of settings.get (lines 196-207).
DefaultRecord == Record(0, FALSE, TRUE, 0, 65535, TRUE, 0, TRUE, Null, 115200)

File(status, rec) == [status |-> status, rec |-> rec]
NoFile == File("missing", DefaultRecord)
CorruptFile == File("corrupt", DefaultRecord)

\* A blank frame: what the planes hold before the first capture.
NoFrame == << >>

\* ------------------------------------------------------------ Init
\* The module-level initialisation up to line 181 (the first port scan).
Startup ==
    /\ available_ports = ScanSerialPorts(SERIAL_AVAILABLE, comports)
    /\ selected_port_index = 0
    /\ selected_baud_index = DEFAULT_BAUD_INDEX
    /\ serial_connection = None
    /\ serial_running = FALSE
    /\ serial_rx_buffer = << >>
    /\ nthreads = 0
    /\ pc = [r \in Threads |-> "unstarted"]
    /\ data = [r \in Threads |-> << >>]
    /\ session = [r \in Threads |-> 0]
    /\ rxSeq = 0
    /\ rx_pending = << >>
    /\ read_error = {}
    /\ lastCall = [op |-> "none", ret |-> FALSE, n |-> 0]
    /\ current_palette_index = 0
    /\ invert_palette = FALSE
    /\ show_histogram = TRUE
    /\ sharpen_index = 0
    /\ show_cursor_readout = TRUE
    /\ last_serial_port = Null
    /\ last_baud_rate = 115200
    /\ dragging_slider = "None"
    /\ serial_tx_buffer = << >>
    /\ serial_input_active = FALSE
    /\ last_written = << >>
    /\ frame = NoFrame
    /\ high = NoFrame
    /\ low = NoFrame
    /\ current_gray16 = NoFrame
    /\ norm8 = NoFrame
    /\ preview8 = NoFrame
    /\ preview = NoFrame
    /\ low_val = -1
    /\ high_val = -1

\* lines 61-63: the range configuration before any settings are loaded.
StartupRange ==
    /\ auto_range = TRUE
    /\ manual_offset = 0
    /\ manual_range = 65535

\* The serial channel of a run that found no settings file (load_settings
\* then changes nothing).
Init ==
    /\ SERIAL_AVAILABLE \in BOOLEAN
    /\ comports \in {<< >>, <<"COM3">>}
    /\ thread_limit = MaxThreads
    /\ chunk_limit = MaxChunks
    /\ draft_limit = MaxDraft
    /\ draft_keys = Keys
    /\ cam_frames = RawFrames
    /\ settings_file = NoFile
    /\ mainpc = "run"
    /\ Startup
    /\ StartupRange

\* One port, one connection, and a device that sends enough to fill the log.
InitRx ==
    /\ SERIAL_AVAILABLE = TRUE
    /\ comports = <<"COM3">>
    /\ thread_limit = 1
    /\ chunk_limit = MaxRxChunks
    /\ draft_limit = MaxDraft
    /\ draft_keys = Keys
    /\ cam_frames = RawFrames
    /\ settings_file = NoFile
    /\ mainpc = "run"
    /\ Startup
    /\ StartupRange

\* A main-thread handler that does not write to the transport.
NoWrite == last_written' = << >>

\* ------------------------------------------------------------ serial channel
\* A disconnect that a failing close() leaves before the handle is dropped.
DisconnectSerialCloseRaises ==
    /\ serial_running' = FALSE
    /\ IF serial_connection # None
       THEN \E close_ok \in BOOLEAN :
               IF close_ok
               THEN serial_connection' = None /\ rx_pending' = << >>
               ELSE UNCHANGED <<serial_connection, rx_pending>>
       ELSE UNCHANGED <<serial_connection, rx_pending>>
    /\ read_error' = {}

\* disconnect_serial: the stop flag, close() (close_ok: whether it succeeds;
\* its failure is swallowed), and the handle dropped.  The reader is not
\* joined.
DisconnectSerial ==
    /\ serial_running' = FALSE
    /\ IF serial_connection # None
       THEN \E close_ok \in BOOLEAN :
               /\ serial_connection' = None
               /\ rx_pending' = << >>
       ELSE UNCHANGED <<serial_connection, rx_pending>>
    /\ read_error' = {}

\* connect_serial(port_name); opens: whether serial.Serial(...) succeeds.
\* ret is the function's return value.
ConnectSerial(port_name, opens, ret) ==
    IF ~SERIAL_AVAILABLE \/ port_name = NoPorts
    THEN /\ ret = FALSE
         /\ UNCHANGED <<serial_connection, serial_running, nthreads, pc, read_error,
                        rx_pending>>
    ELSE IF opens
    THEN /\ ret = TRUE
         /\ serial_connection' =
                Serial(nthreads + 1, port_name, BAUD_RATES[selected_baud_index + 1])
         /\ serial_running' = TRUE
         /\ nthreads' = nthreads + 1
         /\ pc' = [pc EXCEPT ![nthreads + 1] = "while"]
         /\ rx_pending' = << >>
         /\ read_error' = IF IsConnected(serial_connection) THEN {} ELSE read_error
    ELSE /\ ret = FALSE
         /\ IF IsConnected(serial_connection)
            THEN DisconnectSerial
            ELSE UNCHANGED <<serial_connection, serial_running, read_error, rx_pending>>
         /\ UNCHANGED <<nthreads, pc>>

\* mouse_callback, action 'toggle_serial'
ToggleSerial ==
    /\ mainpc = "run"
    /\ NoWrite
    /\ IF IsConnected(serial_connection)
       THEN /\ DisconnectSerial
            /\ lastCall' = Call("disconnect_serial", FALSE)
            /\ UNCHANGED <<nthreads, pc>>
       ELSE IF available_ports # << >> /\ available_ports[selected_port_index + 1] # NoPorts
       THEN /\ nthreads < thread_limit
            /\ \E opens \in BOOLEAN, ret \in BOOLEAN :
                  /\ ConnectSerial(available_ports[selected_port_index + 1], opens, ret)
                  /\ lastCall' = Call("connect_serial", ret)
       ELSE UNCHANGED <<serial_connection, serial_running, nthreads, pc, read_error,
                        rx_pending, lastCall>>
    /\ serial_input_active' = FALSE
    /\ UNCHANGED <<envVars, configVars, pipeVars, serial_tx_buffer,
                   available_ports, selected_port_index, selected_baud_index,
                   data, session, rxSeq, serial_rx_buffer, mainpc>>

\* mouse_callback, action 'cycle_port'
CyclePort ==
    /\ mainpc = "run"
    /\ NoWrite
    /\ available_ports # << >>
    /\ selected_port_index' = (selected_port_index + 1) % Len(available_ports)
    /\ serial_input_active' = FALSE
    /\ UNCHANGED <<envVars, configVars, pipeVars, serial_tx_buffer,
                   available_ports, selected_baud_index, serial_connection,
                   serial_running, readerVars, lastCall, mainpc>>

\* mouse_callback, action 'cycle_baud'
CycleBaud ==
    /\ mainpc = "run"
    /\ NoWrite
    /\ selected_baud_index' = (selected_baud_index + 1) % Len(BAUD_RATES)
    /\ serial_input_active' = FALSE
    /\ UNCHANGED <<envVars, configVars, pipeVars, serial_tx_buffer,
                   available_ports, selected_port_index, serial_connection,
                   serial_running, readerVars, lastCall, mainpc>>

\* ------------------------------------------------------------ settings
\* load_settings (line 262, called once at startup).  The whole body is in
\* one try: a file that does not parse leaves every global as it was.
LoadSettings ==
    /\ mainpc = "start"
    /\ NoWrite
    /\ mainpc' = "run"
    /\ IF settings_file.status # "ok"
       THEN /\ lastCall' = Call("load_settings", FALSE)
            /\ UNCHANGED <<serialVars, nthreads, pc, read_error, rx_pending,
                           current_palette_index, invert_palette, auto_range,
                           manual_offset, manual_range, show_histogram, sharpen_index,
                           show_cursor_readout, last_serial_port>>
       ELSE LET settings == settings_file.rec
                last_baud == settings.last_baud_rate
                \* line 210: if last_serial_port and SERIAL_AVAILABLE
                rescan == settings.last_serial_port \notin {Null, ""} /\ SERIAL_AVAILABLE
                ports  == IF rescan THEN ScanSerialPorts(SERIAL_AVAILABLE, comports)
                                    ELSE available_ports
                found  == rescan /\ InSeq(settings.last_serial_port, ports)
            IN  /\ current_palette_index' = settings.palette_index
                /\ invert_palette' = settings.invert
                /\ auto_range' = settings.auto_range
                /\ manual_offset' = settings.offset
                /\ manual_range' = settings.range
                /\ show_histogram' = settings.show_histogram
                /\ sharpen_index' = settings.sharpen_index
                /\ show_cursor_readout' = settings.show_cursor_readout
                /\ last_serial_port' = settings.last_serial_port
                /\ available_ports' = ports
                /\ selected_port_index' =
                       IF found THEN IndexOf(settings.last_serial_port, ports) - 1
                                ELSE selected_port_index
                \* line 215: connect_serial runs here, before line 221 assigns
                \* selected_baud_index, so it reads the index from before the load
                /\ IF found
                   THEN \E opens \in BOOLEAN, ret \in BOOLEAN :
                           /\ ConnectSerial(settings.last_serial_port, opens, ret)
                           /\ lastCall' = Call("load_settings", ret)
                   ELSE /\ lastCall' = Call("load_settings", FALSE)
                        /\ UNCHANGED <<serial_connection, serial_running, nthreads, pc,
                                       read_error, rx_pending>>
                \* lines 220-223
                /\ selected_baud_index' =
                       IF InSeq(last_baud, BAUD_RATES) THEN IndexOf(last_baud, BAUD_RATES) - 1
                                                       ELSE DEFAULT_BAUD_INDEX
    /\ UNCHANGED <<envVars, draftVars, pipeVars, data, session, rxSeq, serial_rx_buffer,
                   last_baud_rate, settings_file, dragging_slider>>

\* The frame loop ends (ESC at line 913, which also deactivates the text
\* input, or the window closed, or no frame) and save_settings runs at line
\* 931; written: whether the file could be written.
SaveSettings ==
    /\ mainpc = "run"
    /\ NoWrite
    /\ mainpc' = "saved"
    /\ last_serial_port' =
          IF available_ports # << >> /\ selected_port_index < Len(available_ports)
          THEN available_ports[selected_port_index + 1] ELSE Null
    /\ last_baud_rate' = BAUD_RATES[selected_baud_index + 1]
    /\ \E written \in BOOLEAN :
          /\ settings_file' =
                IF written
                THEN File("ok", Record(current_palette_index, invert_palette, auto_range,
                                       manual_offset, manual_range, show_histogram,
                                       sharpen_index, show_cursor_readout,
                                       last_serial_port', last_baud_rate'))
                ELSE settings_file
          /\ lastCall' = Call("save_settings", written)
    /\ \E esc \in BOOLEAN : serial_input_active' = (serial_input_active /\ ~esc)
    /\ UNCHANGED <<envVars, serialVars, readerVars, serial_tx_buffer, pipeVars,
                   current_palette_index, invert_palette, auto_range, manual_offset,
                   manual_range, show_histogram, sharpen_index, show_cursor_readout,
                   dragging_slider>>

\* line 934: disconnect_serial after the settings were saved.
ShutdownDisconnect ==
    /\ mainpc = "saved"
    /\ NoWrite
    /\ mainpc' = "exit"
    /\ DisconnectSerial
    /\ lastCall' = Call("disconnect_serial", FALSE)
    /\ UNCHANGED <<envVars, configVars, draftVars, pipeVars, available_ports,
                   selected_port_index, selected_baud_index, nthreads, pc, data,
                   session, rxSeq, serial_rx_buffer>>

\* ------------------------------------------------------------ range controls
\* create_sliders, lines 326-329 (button_margin 10, slider_width 200).
Slider(name) ==
    IF name = "manual_offset"
    THEN [value |-> "manual_offset", x |-> 10,  w |-> 200, min |-> 0, max |-> 65535]
    ELSE [value |-> "manual_range",  x |-> 270, w |-> 200, min |-> 1, max |-> 65535]

SliderNames == {"manual_offset", "manual_range"}

Max(a, b) == IF a >= b THEN a ELSE b
Min(a, b) == IF a <= b THEN a ELSE b

\* update_slider_value, lines 343-346: the value for mouse position x.
SliderValue(slider, x) ==
    LET rel_x == Max(0, Min(x - slider.x, slider.w))
        value == slider.min + (rel_x * (slider.max - slider.min)) \div slider.w
    IN  Max(slider.min, Min(slider.max, value))

\* update_slider_value, lines 348-351
UpdateSliderValue(slider, x) ==
    IF slider.value = "manual_offset"
    THEN manual_offset' = SliderValue(slider, x) /\ UNCHANGED manual_range
    ELSE manual_range' = Max(1, SliderValue(slider, x)) /\ UNCHANGED manual_offset

\* Mouse positions the events carry.
MouseXs == {-50, 10, 110, 210, 270, 271, 370, 470, 3000}

\* mouse_callback, action 'toggle_autorange'
ToggleAutoRange ==
    /\ mainpc = "run"
    /\ NoWrite
    /\ auto_range' = ~auto_range
    /\ serial_input_active' = FALSE
    /\ UNCHANGED <<envVars, serialVars, readerVars, pipeVars, lastCall, mainpc,
                   serial_tx_buffer,
                   current_palette_index, invert_palette, manual_offset,
                   manual_range, show_histogram, sharpen_index, show_cursor_readout,
                   last_serial_port, last_baud_rate, settings_file, dragging_slider>>

\* mouse_callback, EVENT_LBUTTONDOWN on a slider (lines 467-472)
SliderPress ==
    /\ mainpc = "run"
    /\ NoWrite
    /\ ~auto_range
    /\ \E name \in SliderNames, x \in MouseXs :
          /\ Slider(name).x <= x /\ x <= Slider(name).x + Slider(name).w
          /\ dragging_slider' = name
          /\ UpdateSliderValue(Slider(name), x)
    /\ serial_input_active' = FALSE
    /\ UNCHANGED <<envVars, serialVars, readerVars, pipeVars, lastCall, mainpc,
                   serial_tx_buffer,
                   current_palette_index, invert_palette, auto_range,
                   show_histogram, sharpen_index, show_cursor_readout,
                   last_serial_port, last_baud_rate, settings_file>>

\* mouse_callback, EVENT_MOUSEMOVE (lines 476-478)
SliderDrag ==
    /\ mainpc = "run"
    /\ NoWrite
    /\ dragging_slider # "None" /\ ~auto_range
    /\ \E x \in MouseXs : UpdateSliderValue(Slider(dragging_slider), x)
    /\ UNCHANGED <<envVars, serialVars, readerVars, pipeVars, draftVars, lastCall, mainpc,
                   current_palette_index, invert_palette, auto_range,
                   show_histogram, sharpen_index, show_cursor_readout,
                   last_serial_port, last_baud_rate, settings_file, dragging_slider>>

\* mouse_callback, EVENT_LBUTTONUP (lines 480-481)
SliderRelease ==
    /\ mainpc = "run"
    /\ NoWrite
    /\ dragging_slider' = "None"
    /\ UNCHANGED <<envVars, serialVars, readerVars, pipeVars, draftVars, lastCall, mainpc,
                   current_palette_index, invert_palette, auto_range, manual_offset,
                   manual_range, show_histogram, sharpen_index, show_cursor_readout,
                   last_serial_port, last_baud_rate, settings_file>>

\* ------------------------------------------------------------ device
\* The device sends its next chunk; the bytes wait in the open port's buffer.
DeviceSend ==
    /\ IsConnected(serial_connection)
    /\ rx_pending = << >>
    /\ rxSeq < chunk_limit
    /\ rxSeq' = rxSeq + 1
    /\ rx_pending' = Chunk(rxSeq + 1)
    /\ UNCHANGED <<envVars, configVars, txVars, pipeVars, serialVars, nthreads, pc, data, session, serial_rx_buffer,
                   read_error, lastCall, mainpc>>

\* ------------------------------------------------------------ serial_read_thread
InLoopBody == {"in_waiting", "read", "append", "evict"}
Alive == {"while"} \cup InLoopBody

\* line 147: while serial_running and serial_connection and serial_connection.is_open
LoopCondition == serial_running /\ IsConnected(serial_connection)

ReaderWhile(r) ==
    /\ pc[r] = "while"
    /\ IF LoopCondition
       THEN /\ pc' = [pc EXCEPT ![r] = "in_waiting"]
            /\ session' = [session EXCEPT ![r] = serial_connection.id]
       ELSE /\ pc' = [pc EXCEPT ![r] = "done"]
            /\ UNCHANGED session
    /\ UNCHANGED <<envVars, configVars, txVars, pipeVars, serialVars, nthreads, data, rxSeq, rx_pending,
                   serial_rx_buffer, read_error, lastCall, mainpc>>

\* line 149: if serial_connection.in_waiting > 0
ReaderInWaiting(r) ==
    /\ pc[r] = "in_waiting"
    /\ IsConnected(serial_connection)
    /\ pc' = [pc EXCEPT ![r] = IF Len(rx_pending) > 0 THEN "read" ELSE "while"]
    /\ UNCHANGED <<envVars, configVars, txVars, pipeVars, serialVars, nthreads, data, session, rxSeq, rx_pending,
                   serial_rx_buffer, read_error, lastCall, mainpc>>

\* line 151: data = serial_connection.read(serial_connection.in_waiting); the
\* read returns what is there (nothing, after the timeout, when another
\* reader took it).
ReaderRead(r) ==
    /\ pc[r] = "read"
    /\ IsConnected(serial_connection)
    /\ data' = [data EXCEPT ![r] = rx_pending]
    /\ rx_pending' = << >>
    /\ pc' = [pc EXCEPT ![r] = "append"]
    /\ UNCHANGED <<envVars, configVars, txVars, pipeVars, serialVars, nthreads, session, rxSeq,
                   serial_rx_buffer, read_error, lastCall, mainpc>>

\* lines 153-154: hex_str = data.hex().upper(); serial_rx_buffer.append(hex_str)
ReaderAppend(r) ==
    /\ pc[r] = "append"
    /\ serial_rx_buffer' = Append(serial_rx_buffer, Hex(data[r]))
    /\ data' = [data EXCEPT ![r] = << >>]      \* not read again
    /\ pc' = [pc EXCEPT ![r] = "evict"]
    /\ UNCHANGED <<envVars, configVars, txVars, pipeVars, serialVars, nthreads,
                   session, rxSeq, rx_pending, read_error, lastCall, mainpc>>

\* An eviction that drops the newest record (pop()) instead of the oldest.
ReaderEvictNewest(r) ==
    /\ pc[r] = "evict"
    /\ serial_rx_buffer' = IF Len(serial_rx_buffer) > RX_CAPACITY
                           THEN SubSeq(serial_rx_buffer, 1, Len(serial_rx_buffer) - 1)
                           ELSE serial_rx_buffer
    /\ pc' = [pc EXCEPT ![r] = "while"]
    /\ UNCHANGED <<envVars, configVars, txVars, pipeVars, serialVars, nthreads, data, session, rxSeq, rx_pending,
                   read_error, lastCall, mainpc>>

\* lines 155-156: if len(serial_rx_buffer) > 10: serial_rx_buffer.pop(0)
ReaderEvict(r) ==
    /\ pc[r] = "evict"
    /\ serial_rx_buffer' = IF Len(serial_rx_buffer) > RX_CAPACITY
                           THEN Tail(serial_rx_buffer) ELSE serial_rx_buffer
    /\ pc' = [pc EXCEPT ![r] = "while"]
    /\ UNCHANGED <<envVars, configVars, txVars, pipeVars, serialVars, nthreads, data, session, rxSeq, rx_pending,
                   read_error, lastCall, mainpc>>

\* A reader that, on a read error, also takes the channel to Disconnected.
ReaderReadErrorDisconnects(r) ==
    /\ pc[r] \in {"in_waiting", "read"}
    /\ pc' = [pc EXCEPT ![r] = "done"]
    /\ read_error' = IF IsConnected(serial_connection) THEN read_error \cup {r}
                                                       ELSE read_error
    /\ serial_running' = FALSE
    /\ UNCHANGED <<envVars, configVars, txVars, pipeVars, available_ports,
                   selected_port_index, selected_baud_index, serial_connection,
                   nthreads, data, session, rxSeq, rx_pending, serial_rx_buffer,
                   lastCall, mainpc>>

\* lines 160-162: in_waiting or read raised (the transport failed, or the
\* handle is None or closed): the message is printed and the loop is left.
ReaderReadError(r) ==
    /\ pc[r] \in {"in_waiting", "read"}
    /\ pc' = [pc EXCEPT ![r] = "done"]
    /\ read_error' = IF IsConnected(serial_connection) THEN read_error \cup {r}
                                                   ELSE read_error
    /\ UNCHANGED <<envVars, configVars, txVars, pipeVars, serialVars, nthreads, data, session, rxSeq, rx_pending,
                   serial_rx_buffer, lastCall, mainpc>>

Reader(r) ==
    \/ ReaderWhile(r)
    \/ ReaderInWaiting(r)
    \/ ReaderRead(r)
    \/ ReaderAppend(r)
    \/ ReaderEvict(r)
    \/ ReaderReadError(r)

Next ==
    \/ ToggleSerial
    \/ CyclePort
    \/ DeviceSend
    \/ \E r \in Threads : Reader(r)
    \/ SaveSettings
    \/ ShutdownDisconnect

Spec == Init /\ [][Next]_vars

SpecRx == InitRx /\ [][Next]_vars

\* ------------------------------------------------------------ startup and shutdown
\* Persisted records that differ from the defaults in the serial fields.
SerialPortsSaved == {Null, "COM3", "COM4", "COM9", NoPorts}
BaudsSaved == {9600, 115200, 921600, 1234}
SerialFiles ==
    {NoFile, CorruptFile} \cup
    {File("ok", [DefaultRecord EXCEPT !.last_serial_port = p, !.last_baud_rate = b]) :
        p \in SerialPortsSaved, b \in BaudsSaved}

InitSettings ==
    /\ SERIAL_AVAILABLE \in BOOLEAN
    /\ comports \in PortScenarios
    /\ thread_limit = 1
    /\ chunk_limit = 0
    /\ draft_limit = MaxDraft
    /\ draft_keys = Keys
    /\ cam_frames = RawFrames
    /\ settings_file \in SerialFiles
    /\ mainpc = "start"
    /\ Startup
    /\ StartupRange

NextSettings ==
    \/ LoadSettings
    \/ CyclePort
    \/ CycleBaud
    \/ ToggleSerial
    \/ SaveSettings
    \/ ShutdownDisconnect

SpecSettings == InitSettings /\ [][NextSettings]_vars

\* Persisted records that differ from the defaults in the range fields.
OffsetsSaved == {0, 1000, 65535, 70000, -1}
RangesSaved == {0, 1, 2000, 65535, 70000}
RangeFiles ==
    {NoFile} \cup
    {File("ok", [DefaultRecord EXCEPT !.offset = o, !.range = w, !.auto_range = a]) :
        o \in OffsetsSaved, w \in RangesSaved, a \in BOOLEAN}

InitRange ==
    /\ SERIAL_AVAILABLE = TRUE
    /\ comports = << >>
    /\ thread_limit = 0
    /\ chunk_limit = 0
    /\ draft_limit = MaxDraft
    /\ draft_keys = Keys
    /\ cam_frames = RawFrames
    /\ settings_file \in RangeFiles
    /\ mainpc = "start"
    /\ Startup
    /\ StartupRange

NextRange ==
    \/ LoadSettings
    \/ ToggleAutoRange
    \/ SliderPress
    \/ SliderDrag
    \/ SliderRelease

SpecRange == InitRange /\ [][NextRange]_vars

\* ------------------------------------------------------------ serial_send

LowerDigits == <<"0","1","2","3","4","5","6","7","8","9","a","b","c","d","e","f">>
IsHexDigit(c) == InSeq(c, HexDigits) \/ InSeq(c, LowerDigits)
HexVal(c) == IF InSeq(c, HexDigits) THEN IndexOf(c, HexDigits) - 1
                                    ELSE IndexOf(c, LowerDigits) - 1
IsSpace(c) == c \in {" ", "\t", "\n", "\r"}

\* bytes.fromhex(text): whitespace is skipped before each pair, and a pair is
\* two adjacent hexadecimal digits; anything else raises ValueError.
RECURSIVE FromHex(_)
FromHex(text) ==
    IF text = << >> THEN [ok |-> TRUE, bytes |-> << >>]
    ELSE IF IsSpace(Head(text)) THEN FromHex(Tail(text))
    ELSE IF Len(text) >= 2 /\ IsHexDigit(text[1]) /\ IsHexDigit(text[2])
    THEN LET rest == FromHex(Tail(Tail(text)))
         IN  [ok |-> rest.ok,
              bytes |-> IF rest.ok
                        THEN <<16 * HexVal(text[1]) + HexVal(text[2])>> \o rest.bytes
                        ELSE << >>]
    ELSE [ok |-> FALSE, bytes |-> << >>]

\* A serial_send that writes the payload one byte per write call.
SerialSendBytewise(text, write_ok, ret) ==
    IF IsConnected(serial_connection) /\ FromHex(text).ok
    THEN /\ ret = write_ok
         /\ last_written' = [i \in 1..Len(FromHex(text).bytes) |->
                                [payload |-> <<FromHex(text).bytes[i]>>, raised |-> ~write_ok]]
    ELSE /\ ret = FALSE
         /\ last_written' = << >>

\* serial_send(text), lines 164-178; write_ok: whether write() succeeds;
\* ret: the return value.
SerialSend(text, write_ok, ret) ==
    IF IsConnected(serial_connection) /\ FromHex(text).ok
    THEN /\ ret = write_ok
         /\ last_written' = <<[payload |-> FromHex(text).bytes, raised |-> ~write_ok]>>
    ELSE /\ ret = FALSE
         /\ last_written' = << >>

\* lines 421-423 and 920-922: if serial_tx_buffer: serial_send(...); the
\* draft is cleared whatever serial_send returned.
SendDraft(op) ==
    IF serial_tx_buffer # << >>
    THEN /\ \E write_ok \in BOOLEAN, ret \in BOOLEAN :
              /\ SerialSend(serial_tx_buffer, write_ok, ret)
              /\ lastCall' = Call(op, ret)
         /\ serial_tx_buffer' = << >>
    ELSE NoWrite /\ UNCHANGED <<lastCall, serial_tx_buffer>>

\* mouse_callback, a click in the text input box (lines 364-369)
ClickInputBox ==
    /\ mainpc = "run"
    /\ NoWrite
    /\ serial_input_active' = TRUE
    /\ UNCHANGED <<envVars, serialVars, readerVars, configVars, pipeVars, lastCall,
                   mainpc, serial_tx_buffer>>

\* mouse_callback, action 'serial_send'
SendButton ==
    /\ mainpc = "run"
    /\ serial_input_active' = FALSE
    /\ SendDraft("send_button")
    /\ UNCHANGED <<envVars, serialVars, readerVars, configVars, pipeVars, mainpc>>

\* frame loop, Enter with the input active (lines 919-922)
KeyEnter ==
    /\ mainpc = "run"
    /\ serial_input_active
    /\ SendDraft("enter_key")
    /\ UNCHANGED <<envVars, serialVars, readerVars, configVars, pipeVars, mainpc,
                   serial_input_active>>

\* frame loop, Backspace (lines 923-924)
KeyBackspace ==
    /\ mainpc = "run"
    /\ serial_input_active
    /\ NoWrite
    /\ serial_tx_buffer' = IF serial_tx_buffer = << >> THEN << >>
                           ELSE SubSeq(serial_tx_buffer, 1, Len(serial_tx_buffer) - 1)
    /\ UNCHANGED <<envVars, serialVars, readerVars, configVars, pipeVars, lastCall,
                   mainpc, serial_input_active>>

\* frame loop, a printable key (lines 927-928)
KeyChar ==
    /\ mainpc = "run"
    /\ serial_input_active
    /\ Len(serial_tx_buffer) < draft_limit
    /\ NoWrite
    /\ \E c \in draft_keys : serial_tx_buffer' = Append(serial_tx_buffer, c)
    /\ UNCHANGED <<envVars, serialVars, readerVars, configVars, pipeVars, lastCall,
                   mainpc, serial_input_active>>

\* The NUC frames of lines 425 and 429.
NUC_NORMAL ==
    <<"A","A"," ","0","5"," ","0","0"," ","1","6"," ","0","1"," ","0","0"," ",
      "C","6"," ","E","B"," ","A","A">>
NUC_NO_SHUTTER ==
    <<"A","A"," ","0","5"," ","0","0"," ","1","6"," ","0","1"," ","0","2"," ",
      "C","8"," ","E","B"," ","A","A">>

\* A NUC button that also consumes the draft, as the send button does.
NucButtonClearsDraft(op, nuc_frame) ==
    /\ mainpc = "run"
    /\ serial_input_active' = FALSE
    /\ \E write_ok \in BOOLEAN, ret \in BOOLEAN :
          /\ SerialSend(nuc_frame, write_ok, ret)
          /\ lastCall' = Call(op, ret)
    /\ serial_tx_buffer' = << >>
    /\ UNCHANGED <<envVars, serialVars, readerVars, configVars, pipeVars, mainpc>>

\* mouse_callback, actions 'nuc_normal' and 'nuc_no_shutter'
NucButton(op, nuc_frame) ==
    /\ mainpc = "run"
    /\ serial_input_active' = FALSE
    /\ \E write_ok \in BOOLEAN, ret \in BOOLEAN :
          /\ SerialSend(nuc_frame, write_ok, ret)
          /\ lastCall' = Call(op, ret)
    /\ UNCHANGED <<envVars, serialVars, readerVars, configVars, pipeVars, mainpc,
                   serial_tx_buffer>>

NucNormal == NucButton("nuc_normal", NUC_NORMAL)
NucNoShutter == NucButton("nuc_no_shutter", NUC_NO_SHUTTER)

InitSend ==
    /\ SERIAL_AVAILABLE = TRUE
    /\ comports = <<"COM3">>
    /\ thread_limit = 1
    /\ chunk_limit = 0
    /\ draft_limit = MaxDraft
    /\ draft_keys = Keys
    /\ cam_frames = RawFrames
    /\ settings_file = NoFile
    /\ mainpc = "run"
    /\ Startup
    /\ StartupRange

NextSend ==
    \/ ClickInputBox
    \/ KeyChar
    \/ KeyBackspace
    \/ KeyEnter
    \/ SendButton
    \/ NucNormal
    \/ NucNoShutter
    \/ ToggleSerial

SpecSend == InitSend /\ [][NextSend]_vars

\* ------------------------------------------------------------ frame loop
AUTO_RANGE_LOW_PERCENTILE == 0
AUTO_RANGE_HIGH_PERCENTILE == 100

\* The column at which the frame is split into its halves: 1280 in the
\* source (lines 852-853), 2 in the frames of the model.
SPLIT_COLUMN == 2

\* line 840: the BGR frame the capture delivers for the data raw: a row is
\* the high bytes followed by the low bytes, each byte in the green channel
\* of its pixel <<B, G, R>>; the other two channels hold other values.
Pixel(g) == <<255 - g, g, (g + 85) % 256>>
Capture(raw) ==
    [i \in DOMAIN raw |->
        [j \in 1..(2 * Len(raw[i])) |->
            IF j <= Len(raw[i]) THEN Pixel(raw[i][j][1])
                                ELSE Pixel(raw[i][j - Len(raw[i])][2])]]

\* lines 852-853: frame[:, :1280, :] and frame[:, 1280:, :]
LeftHalf(img) ==
    [i \in DOMAIN img |-> SubSeq(img[i], 1, Min(SPLIT_COLUMN, Len(img[i])))]
RightHalf(img) ==
    [i \in DOMAIN img |-> SubSeq(img[i], SPLIT_COLUMN + 1, Len(img[i]))]

\* lines 856-857: img[:, :, c] (c from 0: B, G, R)
Channel(img, c) == [i \in DOMAIN img |-> [j \in DOMAIN img[i] |-> img[i][j][c + 1]]]

\* A decode whose shift is done in 8 bits (no astype(np.uint16)).
DecodeUint8(h, l) == ((h * 256) % 256) + l

\* line 859: gray16 = (high << 8) | low, in uint16; the shifted value has a
\* zero low byte and low is below 256, so the bitwise or adds.
Decode(h, l) == ((h * 256) % 65536) + l
DecodeFrame(hi, lo) ==
    [i \in DOMAIN hi |-> [j \in DOMAIN hi[i] |-> Decode(hi[i][j], lo[i][j])]]

RECURSIVE Flatten(_)
Flatten(f) == IF f = << >> THEN << >> ELSE Head(f) \o Flatten(Tail(f))

\* The k-th smallest element (k from 1) of a non-empty sequence.
KthSmallest(s, k) ==
    CHOOSE v \in {s[i] : i \in DOMAIN s} :
        /\ Cardinality({i \in DOMAIN s : s[i] < v}) < k
        /\ Cardinality({i \in DOMAIN s : s[i] <= v}) >= k

\* np.percentile(a, q), linear interpolation between the two nearest ranks;
\* exact for q = 0 and q = 100, the only values the program uses.
Percentile(f, q) ==
    LET s   == Flatten(f)
        pos == q * (Len(s) - 1)
        lo  == pos \div 100
        hi  == Min(lo + 1, Len(s) - 1)
    IN  KthSmallest(s, lo + 1)
          + ((pos % 100) * (KthSmallest(s, hi + 1) - KthSmallest(s, lo + 1))) \div 100

\* A scaling without the clip: the truncated quotient wraps into a byte.
ScaleToByteWrapped(x, lo, width, nan) ==
    IF width = 0 THEN (IF x > lo THEN 255 ELSE IF x < lo THEN 0 ELSE nan)
    ELSE LET num == IF width > 0 THEN (x - lo) * 255 ELSE (lo - x) * 255
             den == IF width > 0 THEN width ELSE -width
         IN  IF num >= 0 THEN (num \div den) % 256
                         ELSE (256 - (((-num) \div den) % 256)) % 256

\* A scaling that rounds to the nearest integer instead of truncating.
ScaleToByteRounded(x, lo, width, nan) ==
    IF width = 0 THEN (IF x > lo THEN 255 ELSE IF x < lo THEN 0 ELSE nan)
    ELSE LET num == IF width > 0 THEN (x - lo) * 255 ELSE (lo - x) * 255
             den == IF width > 0 THEN width ELSE -width
         IN  IF num <= 0 THEN 0 ELSE Min(255, (2 * num + den) \div (2 * den))

\* lines 874-876 and 881-883: clip((x - lo) / width * 255.0, 0, 255) and
\* astype(np.uint8), which truncates.  A zero width divides by zero: the
\* quotient is +-inf, clipped, or NaN, which astype turns into a byte the
\* platform chooses (nan).
ScaleToByte(x, lo, width, nan) ==
    IF width = 0 THEN (IF x > lo THEN 255 ELSE IF x < lo THEN 0 ELSE nan)
    ELSE LET num == IF width > 0 THEN (x - lo) * 255 ELSE (lo - x) * 255
             den == IF width > 0 THEN width ELSE -width
         IN  IF num <= 0 THEN 0 ELSE Min(255, num \div den)

\* lines 873-876 and 880-883, element-wise over the frame.
ScaleFrame(gray16, lo, width, nan) ==
    [i \in DOMAIN gray16 |->
        [j \in DOMAIN gray16[i] |-> ScaleToByte(gray16[i][j], lo, width, nan)]]

\* line 865: the low bound.
AutoLow(gray16) == Percentile(gray16, AUTO_RANGE_LOW_PERCENTILE)
\* A high bound that is not forced above the low one.
AutoHighUnforced(gray16) == Percentile(gray16, AUTO_RANGE_HIGH_PERCENTILE)

\* lines 866-870: the high bound, forced above the low one.
AutoHigh(gray16) ==
    LET l == Percentile(gray16, AUTO_RANGE_LOW_PERCENTILE)
        h == Percentile(gray16, AUTO_RANGE_HIGH_PERCENTILE)
    IN  IF h <= l THEN l + 1 ELSE h

\* ---- apply_sharpening
\* lines 73 and 77-82; a strength is held as its double (0.5, 1.0, 1.5).
sharpen_levels == <<"Off", "Low", "Medium", "High">>

\* Subscripting a Python list with the integer i: it raises IndexError
\* outside -len..len-1, and a negative i counts from the end.
ListIndexOk(list, i) == -Len(list) <= i /\ i < Len(list)
ListItem(list, i) == IF i >= 0 THEN list[i + 1] ELSE list[Len(list) + i + 1]

NoParams == << >>
sharpen_params(level) ==
    CASE level = "Off"    -> NoParams
      [] level = "Low"    -> <<5, 1>>
      [] level = "Medium" -> <<5, 2>>
      [] level = "High"   -> <<7, 3>>

\* cv2.getGaussianKernel with sigma 0: the fixed kernels of sizes 5 and 7,
\* as numerators over their sum (16 and 64).
GaussianKernel(blur_size) ==
    IF blur_size = 5 THEN <<1, 4, 6, 4, 1>> ELSE <<2, 7, 14, 18, 14, 7, 2>>

RECURSIVE SumSeq(_)
SumSeq(q) == IF q = << >> THEN 0 ELSE Head(q) + SumSeq(Tail(q))

\* The border mode of cv2.GaussianBlur (BORDER_REFLECT_101): the index p
\* (from 0) reflected into 0..n-1.
Reflect101(p, n) ==
    IF n = 1 THEN 0
    ELSE LET period == 2 * (n - 1)
             q == ((p % period) + period) % period
         IN  IF q >= n THEN period - q ELSE q

\* Rounding of num / den (both positive) to the nearest integer; a tie goes
\* up or to the even neighbour, as the build of the library does (tie_up).
RoundDiv(num, den, tie_up) ==
    LET fl == num \div den
        r2 == 2 * (num % den)
    IN  IF r2 < den THEN fl
        ELSE IF r2 > den THEN fl + 1
        ELSE IF tie_up \/ fl % 2 = 1 THEN fl + 1 ELSE fl

\* cv2.GaussianBlur(img, (blur_size, blur_size), 0) on an 8-bit image.
GaussianBlur(img, blur_size, tie_up) ==
    LET kernel == GaussianKernel(blur_size)
        radius == (blur_size - 1) \div 2
        rows == Len(img)
        total == SumSeq(kernel) * SumSeq(kernel)
        Weighted(i, j) ==
            SumSeq([a \in 1..blur_size |->
                kernel[a] * SumSeq([b \in 1..blur_size |->
                    kernel[b] * img[Reflect101(i - 1 + a - 1 - radius, rows) + 1]
                                   [Reflect101(j - 1 + b - 1 - radius, Len(img[i])) + 1]])])
    IN  [i \in DOMAIN img |->
            [j \in DOMAIN img[i] |-> RoundDiv(Weighted(i, j), total, tie_up)]]

\* An apply_sharpening that treats the level 'Off' as 'Low'.
ApplySharpeningAlways(img, index, tie_up) ==
    LET params == IF index = 0 THEN <<5, 1>>
                  ELSE sharpen_params(ListItem(sharpen_levels, index))
        blurred == GaussianBlur(img, params[1], tie_up)
    IN  [i \in DOMAIN img |-> [j \in DOMAIN img[i] |->
            LET twice == 2 * img[i][j] + params[2] * (img[i][j] - blurred[i][j])
            IN  IF twice <= 0 THEN 0 ELSE Min(255, twice \div 2)]]

\* apply_sharpening(img), lines 793-816, with sharpen_index = index:
\* clip(img + strength * (img - blurred), 0, 255) truncated to a byte.
ApplySharpening(img, index, tie_up) ==
    LET params == sharpen_params(ListItem(sharpen_levels, index))
        blurred == GaussianBlur(img, params[1], tie_up)
    IN  IF params = NoParams THEN img
        ELSE [i \in DOMAIN img |-> [j \in DOMAIN img[i] |->
                LET twice == 2 * img[i][j] + params[2] * (img[i][j] - blurred[i][j])
                IN  IF twice <= 0 THEN 0 ELSE Min(255, twice \div 2)]]

\* ---- apply_palette
\* lines 42-51: the keys of palettes, in insertion order.
palette_names == <<"grayscale", "jet", "hot", "bone", "inferno", "viridis",
                   "plasma", "turbo", "rainbow", "ocean">>

\* cv2.applyColorMap(img, COLORMAP_<NAME>) at one pixel: the entry v of the
\* library's table for the colormap, kept as a term (the tables are the
\* library's).
ColorMapEntry(name, v) == [colormap |-> name, index |-> v]

\* cv2.cvtColor(img, cv2.COLOR_GRAY2BGR) at one pixel
Gray2Bgr(v) == [b |-> v, g |-> v, r |-> v]

\* line 821: 255 - gray8, in uint8
Invert(v) == (255 - v) % 256

\* apply_palette(gray8), lines 818-827, with current_palette_index = index
\* and invert_palette = invert.
ApplyPalette(gray8, index, invert) ==
    LET palette_name == ListItem(palette_names, index)
    IN  [i \in DOMAIN gray8 |-> [j \in DOMAIN gray8[i] |->
            LET v == IF invert THEN Invert(gray8[i][j]) ELSE gray8[i][j]
            IN  IF palette_name = "grayscale" THEN Gray2Bgr(v)
                ELSE ColorMapEntry(palette_name, v)]]

\* lines 840-889: one iteration of the frame loop on the captured data raw;
\* nan: the byte a NaN converts to; tie_up: how the blur rounds a tie.
\* The list lookups of lines 799 and 823 are inside no try: an IndexError
\* there leaves the loop (and the program) with the frame's earlier
\* assignments made.
ProcessFrame ==
    /\ mainpc = "run"
    /\ \E raw \in cam_frames :
       \E nan \in (IF ~auto_range /\ manual_range = 0 THEN 0..255 ELSE {0}) :
       \E tie_up \in (IF sharpen_index \in {0, -Len(sharpen_levels)}
                         \/ ~ListIndexOk(sharpen_levels, sharpen_index)
                      THEN {TRUE} ELSE BOOLEAN) :
          /\ frame' = Capture(raw)
          /\ low' = Channel(RightHalf(frame'), 1)
          /\ high' = Channel(LeftHalf(frame'), 1)
          /\ current_gray16' = DecodeFrame(high', low')
          /\ IF auto_range
             THEN /\ low_val' = AutoLow(current_gray16')
                  /\ high_val' = AutoHigh(current_gray16')
                  /\ norm8' = ScaleFrame(current_gray16', low_val',
                                         high_val' - low_val', nan)
             ELSE /\ UNCHANGED <<low_val, high_val>>
                  /\ norm8' = ScaleFrame(current_gray16', manual_offset,
                                         manual_range, nan)
          /\ IF ~ListIndexOk(sharpen_levels, sharpen_index)
             THEN /\ preview8' = norm8'
                  /\ preview' = preview
                  /\ mainpc' = "raised"
             ELSE /\ preview8' = ApplySharpening(norm8', sharpen_index, tie_up)
                  /\ IF ~ListIndexOk(palette_names, current_palette_index)
                     THEN /\ preview' = preview
                          /\ mainpc' = "raised"
                     ELSE /\ preview' = ApplyPalette(preview8', current_palette_index,
                                                    invert_palette)
                          /\ mainpc' = mainpc
    /\ UNCHANGED <<envVars, serialVars, readerVars, configVars, txVars, lastCall>>

\* The range configurations the frame loop is started in: the defaults and
\* windows set by the sliders or a settings file.
RangeConfigs == {<<0, 65535>>, <<1000, 2000>>, <<32767, 1>>}

InitPipeline ==
    /\ SERIAL_AVAILABLE = TRUE
    /\ comports = << >>
    /\ thread_limit = 0
    /\ chunk_limit = 0
    /\ draft_limit = MaxDraft
    /\ draft_keys = Keys
    /\ cam_frames = RawFrames
    /\ settings_file = NoFile
    /\ mainpc = "run"
    /\ Startup
    /\ auto_range \in BOOLEAN
    /\ \E c \in RangeConfigs : manual_offset = c[1] /\ manual_range = c[2]

NextPipeline == ProcessFrame

SpecPipeline == InitPipeline /\ [][NextPipeline]_vars

\* ------------------------------------------------------------ transport errors
\* The serial channel with the three places a transport error can occur: the
\* open in connect_serial, the reader's in_waiting / read, and the write of
\* serial_send (here through the NUC button, whose text is always valid).
InitErrors ==
    /\ SERIAL_AVAILABLE = TRUE
    /\ comports = <<"COM3">>
    /\ thread_limit = MaxThreads
    /\ chunk_limit = MaxChunks
    /\ draft_limit = MaxDraft
    /\ draft_keys = Keys
    /\ cam_frames = RawFrames
    /\ settings_file = NoFile
    /\ mainpc = "run"
    /\ Startup
    /\ StartupRange

NextErrors ==
    \/ ToggleSerial
    \/ DeviceSend
    \/ \E r \in Threads : Reader(r)
    \/ NucNormal

SpecErrors == InitErrors /\ [][NextErrors]_vars

\* ------------------------------------------------------------ the text input
\* The text input alone (no NUC buttons), typed with hexadecimal digits and
\* spaces, long enough for "AA 05".
InitTx ==
    /\ SERIAL_AVAILABLE = TRUE
    /\ comports = <<"COM3">>
    /\ thread_limit = 1
    /\ chunk_limit = 0
    /\ draft_limit = MaxTxDraft
    /\ draft_keys = HexKeys
    /\ cam_frames = RawFrames
    /\ settings_file = NoFile
    /\ mainpc = "run"
    /\ Startup
    /\ StartupRange

NextTx ==
    \/ ClickInputBox
    \/ KeyChar
    \/ KeyBackspace
    \/ KeyEnter
    \/ SendButton
    \/ ToggleSerial

SpecTx == InitTx /\ [][NextTx]_vars

\* ------------------------------------------------------------ display controls
\* mouse_callback, action 'cycle_palette' (lines 387-389)
CyclePalette ==
    /\ mainpc = "run"
    /\ NoWrite
    /\ current_palette_index' = (current_palette_index + 1) % Len(palette_names)
    /\ serial_input_active' = FALSE
    /\ UNCHANGED <<envVars, serialVars, readerVars, pipeVars, mainpc, serial_tx_buffer,
                   lastCall,
                   invert_palette, auto_range, manual_offset, manual_range,
                   show_histogram, sharpen_index, show_cursor_readout,
                   last_serial_port, last_baud_rate, settings_file, dragging_slider>>

\* A toggle_invert that switches the inversion on and never off.
ToggleInvertSets ==
    /\ mainpc = "run"
    /\ NoWrite
    /\ invert_palette' = TRUE
    /\ lastCall' = Call("toggle_invert", FALSE)
    /\ serial_input_active' = FALSE
    /\ UNCHANGED <<envVars, serialVars, readerVars, pipeVars, mainpc, serial_tx_buffer,
                   current_palette_index, auto_range, manual_offset, manual_range,
                   show_histogram, sharpen_index, show_cursor_readout,
                   last_serial_port, last_baud_rate, settings_file, dragging_slider>>

\* mouse_callback, action 'toggle_invert' (lines 390-392)
ToggleInvert ==
    /\ mainpc = "run"
    /\ NoWrite
    /\ invert_palette' = ~invert_palette
    /\ lastCall' = Call("toggle_invert", FALSE)
    /\ serial_input_active' = FALSE
    /\ UNCHANGED <<envVars, serialVars, readerVars, pipeVars, mainpc, serial_tx_buffer,
                   current_palette_index, auto_range, manual_offset, manual_range,
                   show_histogram, sharpen_index, show_cursor_readout,
                   last_serial_port, last_baud_rate, settings_file, dragging_slider>>

\* mouse_callback, action 'cycle_sharpen' (lines 399-401)
CycleSharpen ==
    /\ mainpc = "run"
    /\ NoWrite
    /\ sharpen_index' = (sharpen_index + 1) % Len(sharpen_levels)
    /\ serial_input_active' = FALSE
    /\ UNCHANGED <<envVars, serialVars, readerVars, pipeVars, mainpc, serial_tx_buffer,
                   lastCall,
                   current_palette_index, invert_palette, auto_range, manual_offset,
                   manual_range, show_histogram, show_cursor_readout,
                   last_serial_port, last_baud_rate, settings_file, dragging_slider>>

\* The frame loop with the palette, inversion and sharpening controls, on
\* the default range configuration.
InitDisplay ==
    /\ SERIAL_AVAILABLE = TRUE
    /\ comports = << >>
    /\ thread_limit = 0
    /\ chunk_limit = 0
    /\ draft_limit = MaxDraft
    /\ draft_keys = Keys
    /\ cam_frames = DisplayFrames
    /\ settings_file = NoFile
    /\ mainpc = "run"
    /\ Startup
    /\ StartupRange

NextDisplay ==
    \/ ProcessFrame
    \/ CyclePalette
    \/ ToggleInvert
    \/ CycleSharpen

SpecDisplay == InitDisplay /\ [][NextDisplay]_vars

\* The device shortcuts next to a pending draft: the text input, the two NUC
\* buttons and the serial toggle.
InitNuc ==
    /\ SERIAL_AVAILABLE = TRUE
    /\ comports = <<"COM3">>
    /\ thread_limit = 1
    /\ chunk_limit = 0
    /\ draft_limit = MaxDraft
    /\ draft_keys = {"A"}
    /\ cam_frames = RawFrames
    /\ settings_file = NoFile
    /\ mainpc = "run"
    /\ Startup
    /\ StartupRange

NextNuc ==
    \/ ClickInputBox
    \/ KeyChar
    \/ KeyBackspace
    \/ NucNormal
    \/ NucNoShutter
    \/ ToggleSerial

SpecNuc == InitNuc /\ [][NextNuc]_vars

\* Persisted records that differ from the defaults in the two list indices:
\* the ends of both lists, one past them, and negative integers.
PaletteIndicesSaved == {0, 9, 10, -1}
SharpenIndicesSaved == {0, 3, 4, -5}
IndexFiles ==
    {NoFile} \cup
    {File("ok", [DefaultRecord EXCEPT !.palette_index = p, !.sharpen_index = s]) :
        p \in PaletteIndicesSaved, s \in SharpenIndicesSaved}

\* The frame the camera delivers in these runs: the samples 0, 65535,
\* 30000, 30000.
IndexFrames == {<<<<<<0, 0>>, <<255, 255>>>>, <<<<117, 48>>, <<117, 48>>>>>>}

\* Startup from a settings file, then the frame loop with the two cycle
\* buttons.
InitIndices ==
    /\ SERIAL_AVAILABLE = TRUE
    /\ comports = << >>
    /\ thread_limit = 0
    /\ chunk_limit = 0
    /\ draft_limit = MaxDraft
    /\ draft_keys = Keys
    /\ cam_frames = IndexFrames
    /\ settings_file \in IndexFiles
    /\ mainpc = "start"
    /\ Startup
    /\ StartupRange

NextIndices ==
    \/ LoadSettings
    \/ CyclePalette
    \/ CycleSharpen
    \/ ProcessFrame

SpecIndices == InitIndices /\ [][NextIndices]_vars

\* draw_buttons, lines 534-535: the text of the 'toggle_serial' button.
ToggleSerialText == IF IsConnected(serial_connection) THEN "Disconnect" ELSE "Connect"

\* ====================================================================
\* Claims
\* ====================================================================

\* C1: a reader started by an earlier connect never passes its loop
\* condition against the connection opened by a later connect (no two
\* reader loops run on one connection).
C1_OneReaderPerConnection ==
    \A r \in Threads : session[r] \in {0, r}

\* C2: disconnect_serial closes and drops the handle only after the reader
\* left its loop: a reader never evaluates in_waiting or read on a
\* connection that is closed or None.
C2_NoUseAfterClose ==
    [][\A r \in Threads :
         (pc[r] \in {"in_waiting", "read"} /\ pc'[r] # pc[r])
            => IsConnected(serial_connection)]_vars

\* C3: serial_rx_buffer holds at most 10 records in every reachable state,
\* the states between the reader's append and its eviction included.
C3_RxLogBounded == Len(serial_rx_buffer) <= RX_CAPACITY

\* C5: a read error of the open transport ends the reader's loop and changes
\* nothing else; from then until disconnect_serial is called serial_running
\* stays True, serial_connection stays non-null and open, and the UI shows
\* the link as connected.
C5_ReadErrorKeepsLinkOpen ==
    /\ [](read_error # {} =>
            /\ serial_running
            /\ IsConnected(serial_connection)
            /\ ToggleSerialText = "Disconnect"
            /\ \A r \in read_error : pc[r] = "done")
    /\ [][read_error' \notin {read_error, {}} =>
            /\ serial_running' = serial_running
            /\ serial_connection' = serial_connection
            /\ serial_rx_buffer' = serial_rx_buffer]_vars

\* C5 witness: a reader has ended on a read error, the channel still shows
\* connected, and a second action (the device sending) has happened since.
C5_Witness ==
    /\ read_error # {}
    /\ \A r \in read_error : pc[r] = "done"
    /\ rx_pending # << >>

\* C10: connect_serial either returns True with an open connection,
\* serial_running True and exactly one newly started reader, or returns
\* False with the channel Disconnected: no handle, serial_running False and
\* no reader thread running.
C10_ConnectOutcome ==
    [][(lastCall' # lastCall /\ lastCall'.op = "connect_serial") =>
         IF lastCall'.ret
         THEN /\ IsConnected(serial_connection')
              /\ serial_running'
              /\ Cardinality({r \in Threads : pc[r] = "unstarted" /\ pc'[r] = "while"}) = 1
         ELSE /\ serial_connection' = None
              /\ ~serial_running'
              /\ \A r \in Threads : pc'[r] \notin Alive]_vars

\* C6: the automatic reconnect of load_settings opens the port at the baud
\* rate stored in the record's last_baud_rate.
C6_ReconnectUsesPersistedBaud ==
    (/\ lastCall.op = "load_settings"
     /\ lastCall.ret
     /\ InSeq(settings_file.rec.last_baud_rate, BAUD_RATES))
        => serial_connection.baud = settings_file.rec.last_baud_rate

\* C7: save_settings writes as last_serial_port the connected port's name when
\* a session is open and null when none is, and as last_baud_rate
\* BAUD_RATES[selected_baud_index].
C7_SavedPortIsConnectedPort ==
    mainpc = "saved" =>
        /\ last_serial_port = (IF IsConnected(serial_connection)
                               THEN serial_connection.port ELSE Null)
        /\ last_baud_rate = BAUD_RATES[selected_baud_index + 1]
        /\ lastCall.ret =>
              /\ settings_file.rec.last_serial_port = last_serial_port
              /\ settings_file.rec.last_baud_rate = last_baud_rate

\* C8: whenever the frame loop reads the range configuration, manual_range is
\* in [1, 65535] and manual_offset in [0, 65535], after any slider updates
\* and after load_settings with any persisted record.
C8_RangeConfigValid ==
    (mainpc = "run" /\ ~auto_range) =>
        /\ manual_range \in 1..65535
        /\ manual_offset \in 0..65535

\* C4: a send of malformed hex text while connected, made through the Send
\* button or the Enter key, writes nothing to the transport, fails, and
\* leaves serial_connection, serial_running, serial_rx_buffer and the draft
\* serial_tx_buffer unchanged.
C4_MalformedSendChangesNothing ==
    [][(/\ lastCall' # lastCall
        /\ lastCall'.op \in {"send_button", "enter_key"}
        /\ IsConnected(serial_connection)
        /\ ~FromHex(serial_tx_buffer).ok) =>
            /\ last_written' = << >>
            /\ ~lastCall'.ret
            /\ serial_connection' = serial_connection
            /\ serial_running' = serial_running
            /\ serial_rx_buffer' = serial_rx_buffer
            /\ serial_tx_buffer' = serial_tx_buffer]_vars

\* The frame of the scenario and its two candidate outputs.
F9 == <<<<0, 65535>>, <<30000, 30000>>>>
G9_117 == <<<<0, 255>>, <<117, 117>>>>
G9_116 == <<<<0, 255>>, <<116, 116>>>>

\* C9 as stated: auto-range normalization of [[0, 65535],[30000, 30000]] uses
\* low = 0 and high = 65535 and yields [[0, 255],[117, 117]].
C9_AutoRangeScenario117 ==
    (auto_range /\ current_gray16 = F9) =>
        (low_val = 0 /\ high_val = 65535 /\ preview8 = G9_117)

\* C9 amended: auto-range normalization of [[0, 65535],[30000, 30000]] uses
\* low = 0 and high = 65535 and yields [[0, 255],[116, 116]]: 30000 / 65535 *
\* 255 = 116.73 truncates to 116; and every output byte of an auto-range
\* frame is the truncation of (x - low) * 255 / (high - low), in [0, 255].
C9_AutoRangeScenario116 ==
    /\ (auto_range /\ current_gray16 = F9) =>
          (low_val = 0 /\ high_val = 65535 /\ preview8 = G9_116)
    /\ (auto_range /\ current_gray16 # NoFrame) =>
          \A i \in DOMAIN preview8 : \A j \in DOMAIN preview8[i] :
             LET x == current_gray16[i][j] IN
             /\ preview8[i][j] \in 0..255
             /\ preview8[i][j] * (high_val - low_val) <= (x - low_val) * 255
             /\ \/ preview8[i][j] = 255
                \/ (preview8[i][j] + 1) * (high_val - low_val) > (x - low_val) * 255

\* C9 witness: the scenario's frame has been normalized in auto mode.
C9_Witness ==
    auto_range /\ current_gray16 = F9 /\ preview8 = G9_116 /\ high_val = 65535

\* C11: after any transport error (the open of connect_serial fails, the
\* reader's in_waiting or read fails on the open transport, or the write of
\* serial_send fails) the channel is Disconnected (serial_connection not
\* open, serial_running False) and the main frame loop continues.
C11_TransportErrorDisconnects ==
    [][(\/ (lastCall' # lastCall /\ lastCall'.op = "connect_serial" /\ ~lastCall'.ret)
        \/ read_error' \notin {read_error, {}}
        \/ (/\ lastCall' # lastCall
            /\ lastCall'.op = "nuc_normal"
            /\ ~lastCall'.ret
            /\ IsConnected(serial_connection))) =>
            /\ ~IsConnected(serial_connection')
            /\ ~serial_running'
            /\ mainpc' = "run"]_vars

\* The log after n chunks were appended to an empty log: the last
\* min(n, 10) chunks in arrival order, each as its hexadecimal string.
ExpectedLog(n) ==
    [i \in 1..Min(n, RX_CAPACITY) |-> Hex(Chunk(n - Min(n, RX_CAPACITY) + i))]

\* C12: once the reader has appended n chunks c1..cn to an initially empty
\* serial_rx_buffer and finished its eviction step, the buffer is the last
\* min(n, 10) chunks in arrival order, most recent last, each the uppercase
\* hexadecimal string of the whole chunk.  (n is the number of chunks
\* delivered, less the one still waiting in the port's buffer or dropped
\* with the port at a disconnect.)
C12_RxLogIsLastTen ==
    (\A r \in Threads : pc[r] \notin {"append", "evict"}) =>
        IF IsConnected(serial_connection)
        THEN serial_rx_buffer =
                 ExpectedLog(IF rx_pending = << >> THEN rxSeq ELSE rxSeq - 1)
        ELSE serial_rx_buffer \in {ExpectedLog(rxSeq), ExpectedLog(Max(rxSeq - 1, 0))}

\* C12 witness: eleven chunks were appended and the eviction is done: c1 is
\* absent and c11 = 0B F4 is the last of ten records.
C12_Witness ==
    /\ rxSeq = 11
    /\ \A r \in Threads : pc[r] \notin {"append", "evict"}
    /\ Len(serial_rx_buffer) = 10
    /\ serial_rx_buffer[10] = <<"0", "B", "F", "4">>
    /\ serial_rx_buffer[1] = <<"0", "2", "F", "D">>
    /\ ~InSeq(<<"0", "1", "F", "E">>, serial_rx_buffer)

\* Hex text as the specification reads it: the characters other than
\* whitespace are hexadecimal digits, an even number of them, and whitespace
\* stands only between pairs (before an even number of digits).
WellFormedHex(text) ==
    /\ \A i \in DOMAIN text : IsSpace(text[i]) \/ IsHexDigit(text[i])
    /\ Cardinality({i \in DOMAIN text : ~IsSpace(text[i])}) % 2 = 0
    /\ \A i \in DOMAIN text :
          IsSpace(text[i]) =>
             Cardinality({j \in 1..(i - 1) : ~IsSpace(text[j])}) % 2 = 0

\* The bytes the pairs denote, in order.
DenotedBytes(text) ==
    LET IsDigitChar(c) == ~IsSpace(c)
        digits == SelectSeq(text, IsDigitChar)
    IN  [k \in 1..(Len(digits) \div 2) |->
            16 * HexVal(digits[2 * k - 1]) + HexVal(digits[2 * k])]

AA05 == <<"A", "A", "0", "5">>
AA_05 == <<"A", "A", " ", "0", "5">>

C14_DisconnectIdempotent ==
    /\ [](serial_connection = None => ~serial_running)
    /\ [][(lastCall' # lastCall /\ lastCall'.op = "disconnect_serial") =>
            /\ serial_connection' = None
            /\ ~serial_running'
            /\ mainpc' \in {"run", "exit"}
            /\ serial_connection = None =>
                  /\ serial_running' = serial_running
                  /\ serial_rx_buffer' = serial_rx_buffer
                  /\ pc' = pc
                  /\ UNCHANGED <<available_ports, selected_port_index,
                                 selected_baud_index, nthreads>>]_vars

\* C14 witness: the program has exited through disconnect_serial although a
\* port was there and no connection was ever made: the call ran with no
\* connection.
C14_Witness ==
    /\ mainpc = "exit"
    /\ lastCall.op = "disconnect_serial"
    /\ available_ports = <<"COM3">>
    /\ nthreads = 0
    /\ serial_connection = None
    /\ ~serial_running

C16_ManualNormalization ==
    (/\ ~auto_range
     /\ current_gray16 # NoFrame
     /\ manual_offset \in 0..65535
     /\ manual_range \in 1..65535) =>
        \A i \in DOMAIN current_gray16 : \A j \in DOMAIN current_gray16[i] :
            LET x == current_gray16[i][j]
                p == preview8[i][j]
            IN  /\ p \in 0..255
                /\ x <= manual_offset => p = 0
                /\ x >= manual_offset + manual_range => p = 255
                /\ (x > manual_offset /\ x < manual_offset + manual_range) =>
                      /\ p * manual_range <= (x - manual_offset) * 255
                      /\ (p + 1) * manual_range > (x - manual_offset) * 255
                /\ (manual_offset = 1000 /\ manual_range = 2000 /\ x = 2000) => p = 127

\* C16 witness: a frame was normalized with offset 1000 and width 2000; its
\* sample 2000 became 127, its sample 0 (below the offset) 0 and its sample
\* 30000 (above the window) 255.
C16_Witness ==
    /\ ~auto_range
    /\ manual_offset = 1000
    /\ manual_range = 2000
    /\ current_gray16 = <<<<2000, 0>>, <<30000, 2000>>>>
    /\ preview8 = <<<<127, 0>>, <<255, 127>>>>

\* Whether every sample of the frame is k.
Uniform(img, k) == \A i \in DOMAIN img : \A j \in DOMAIN img[i] : img[i][j] = k

\* C17: auto-range normalization never divides by zero: the width high - low
\* is at least 1; for a frame whose samples all equal k the bounds are k and
\* k + 1 (the high bound forced above the low) and the output is a constant
\* frame.
C17_UniformFrameNoDivideByZero ==
    (auto_range /\ current_gray16 # NoFrame) =>
        /\ high_val - low_val >= 1
        /\ LET k == current_gray16[1][1] IN
              Uniform(current_gray16, k) =>
                 /\ k \in 0..65535
                 /\ low_val = k
                 /\ high_val = k + 1
                 /\ Uniform(preview8, preview8[1][1])

\* C17 witness: a frame of four samples 65535 was normalized in auto mode.
C17_Witness ==
    /\ auto_range
    /\ current_gray16 = <<<<65535, 65535>>, <<65535, 65535>>>>
    /\ low_val = 65535
    /\ high_val = 65536
    /\ preview8 = <<<<0, 0>>, <<0, 0>>>>

\* The output the palette stage owes for the 8-bit frame gray8: the entry
\* v of the selected palette, or the entry 255 - v when inverted.
MappedOutput(gray8, index, invert) ==
    [i \in DOMAIN gray8 |-> [j \in DOMAIN gray8[i] |->
        LET v == IF invert THEN 255 - gray8[i][j] ELSE gray8[i][j]
        IN  IF index = 0 THEN [b |-> v, g |-> v, r |-> v]
            ELSE [colormap |-> palette_names[index + 1], index |-> v]]]

\* C18: toggle_invert flips invert_palette (so two toggles restore it) and
\* never changes current_palette_index; cycle_palette never changes
\* invert_palette; and the mapped output of a frame is determined by the
\* 8-bit frame, the palette index and the inversion flag (each byte v mapped
\* through the palette at v, or at 255 - v when inverted, where
\* 255 - (255 - v) = v), so that inverting twice yields the output of before.
C18_InvertTwiceRestores ==
    /\ [][(lastCall' # lastCall /\ lastCall'.op = "toggle_invert") =>
            /\ invert_palette' = ~invert_palette
            /\ current_palette_index' = current_palette_index]_vars
    /\ [][current_palette_index' # current_palette_index =>
            invert_palette' = invert_palette]_vars
    /\ [][pipeVars' # pipeVars =>
            /\ preview' = MappedOutput(preview8', current_palette_index, invert_palette)
            /\ preview' = MappedOutput(preview8', current_palette_index, ~~invert_palette)
            /\ \A i \in DOMAIN preview8' : \A j \in DOMAIN preview8'[i] :
                  /\ preview8'[i][j] \in 0..255
                  /\ Invert(Invert(preview8'[i][j])) = preview8'[i][j]]_vars

\* C18 witness: the inversion was toggled an even number of times (at least
\* twice) and is off again, with the palette 'jet' selected and a frame
\* mapped through it.
C18_Witness ==
    /\ lastCall.op = "toggle_invert"
    /\ ~invert_palette
    /\ current_palette_index = 1
    /\ preview8 = <<<<0, 255>>, <<116, 116>>>>
    /\ preview[1][2] = [colormap |-> "jet", index |-> 255]
    /\ preview[2][1] = [colormap |-> "jet", index |-> 116]

\* C19: with the sharpen level 'Off' (sharpen_index = 0) apply_sharpening
\* returns its input frame unchanged, for every input frame, and the frame
\* loop's pass through it changes no configuration state.
C19_SharpenOffIsIdentity ==
    [][pipeVars' # pipeVars =>
         /\ sharpen_index = 0 => preview8' = norm8'
         /\ UNCHANGED <<sharpen_index, current_palette_index, invert_palette,
                        auto_range, manual_offset, manual_range>>]_vars

\* C19 witness: at level 'Off' the frame [[0, 255], [116, 116]] left
\* apply_sharpening as it entered.
C19_Witness ==
    /\ sharpen_index = 0
    /\ norm8 = <<<<0, 255>>, <<116, 116>>>>
    /\ preview8 = norm8
    /\ preview = MappedOutput(norm8, current_palette_index, invert_palette)


\* The nine bytes of the two NUC frames.
NucNormalBytes == <<170, 5, 0, 22, 1, 0, 198, 235, 170>>
NucNoShutterBytes == <<170, 5, 0, 22, 1, 2, 200, 235, 170>>

\* C20: each NUC shortcut is a one-shot send of its fixed frame: when the
\* channel is connected the handler makes exactly one write call, whose
\* payload is the nine bytes AA 05 00 16 01 00 C6 EB AA (normal) or
\* AA 05 00 16 01 02 C8 EB AA (no-shutter); when it is disconnected nothing
\* is written; and in both cases the draft serial_tx_buffer is unchanged.
C20_NucOneShot ==
    [][(lastCall' # lastCall /\ lastCall'.op \in {"nuc_normal", "nuc_no_shutter"}) =>
         /\ serial_tx_buffer' = serial_tx_buffer
         /\ IF IsConnected(serial_connection)
            THEN /\ Len(last_written') = 1
                 /\ last_written'[1].payload =
                       IF lastCall'.op = "nuc_normal" THEN NucNormalBytes
                       ELSE NucNoShutterBytes
                 /\ lastCall'.ret = ~last_written'[1].raised
            ELSE /\ last_written' = << >>
                 /\ lastCall'.ret = FALSE]_vars

\* C20 witness: the no-shutter shortcut was used on a connected channel
\* while a draft was pending; its nine bytes were written once and the
\* draft is still there.
C20_Witness ==
    /\ lastCall.op = "nuc_no_shutter"
    /\ lastCall.ret
    /\ IsConnected(serial_connection)
    /\ last_written = <<[payload |-> NucNoShutterBytes, raised |-> FALSE]>>
    /\ serial_tx_buffer = <<"A", "A">>


\* The lookups of apply_sharpening and apply_palette never end the frame
\* loop (the consequence C21 draws from the ranges).
FrameLoopNeverRaises == mainpc # "raised"

\* C21: in every state reached by load_settings (with any persisted
\* record), cycle_palette and cycle_sharpen, current_palette_index is in
\* 0..len(palette_names)-1 and sharpen_index is in 0..len(sharpen_levels)-1,
\* so that the per-frame lookups never fail and never end the frame loop.
C21_IndicesInRange ==
    /\ current_palette_index \in 0..(Len(palette_names) - 1)
    /\ sharpen_index \in 0..(Len(sharpen_levels) - 1)
    /\ FrameLoopNeverRaises

\* Each cycle action advances its index by one modulo the length of its
\* list, and lands inside the list whatever the index was.
CycleAdvancesByOne ==
    [][mainpc = "run" /\ mainpc' = "run" =>
         /\ current_palette_index' # current_palette_index =>
               /\ current_palette_index' = (current_palette_index + 1) % Len(palette_names)
               /\ current_palette_index' \in 0..(Len(palette_names) - 1)
         /\ sharpen_index' # sharpen_index =>
               /\ sharpen_index' = (sharpen_index + 1) % Len(sharpen_levels)
               /\ sharpen_index' \in 0..(Len(sharpen_levels) - 1)]_vars

====
